---------------------------- MODULE Spec2Model ----------------------------
(***************************************************************************)
(* The encrypted MTProto session layer of telethon                         *)
(* (client/src/telethon/_impl/mtproto/mtp/encrypted.py, class Encrypted).  *)
(*                                                                         *)
(* One Encrypted object is modelled.  Its fields are the variables below;  *)
(* push, finalize and deserialize are the actions.  Byte strings are       *)
(* modelled by records that keep what the code reads from them (the        *)
(* constructor id, the fields a handler parses, the length in bytes).      *)
(*                                                                         *)
(* Units.  Lengths are bytes.  The wall clock is counted in ticks of       *)
(* 1/MsgIdScale second (each call reads it once, and it may stall or go     *)
(* backwards between calls); a message id is a number of ticks: the code's  *)
(* factor 0x100000000 (ids are seconds * 2^32) is MsgIdScale here, because *)
(* TLC's integers are 32 bits wide.  msg_id >> 32 is msg_id \div           *)
(* MsgIdScale, int(time.time()) is clock \div MsgIdScale.                  *)
(***************************************************************************)
EXTENDS Integers, Sequences, FiniteSets, TLC

VARIABLES
    time_offset,            \* self._time_offset
    salts,                  \* self._salts: sequence of FutureSalt
    start_salt_time,        \* self._start_salt_time: <<>> (None) or <<secs, instant>>
    client_id,              \* self._client_id
    sequence,               \* self._sequence
    last_msg_id,            \* self._last_msg_id
    pending_ack,            \* self._pending_ack
    compression_threshold,  \* self._compression_threshold (NoThreshold: None)
    rpc_results,            \* self._rpc_results
    updates,                \* self._updates
    buffer_reserved,        \* self._buffer starts with the reserved 40 bytes
    buffer,                 \* the messages serialized into self._buffer, in order
    msg_count,              \* self._msg_count
    returned,               \* the ids push returned since the last frame was emitted
    last_call,              \* the last call: its argument, what it returned, raised, allocated
    calls                   \* the number of calls made so far

vars == <<time_offset, salts, start_salt_time, client_id, sequence, last_msg_id,
          pending_ack, compression_threshold, rpc_results, updates,
          buffer_reserved, buffer, msg_count, returned, last_call, calls>>

-----------------------------------------------------------------------------
(* Program constants.                                                      *)

NUM_FUTURE_SALTS == 64

SALT_USE_DELAY == 60

HEADER_LEN == 16

CONTAINER_HEADER_LEN == 24

\* struct.pack("<qii", msg_id, seq_no, len(body)): 8 + 4 + 4 bytes.
MSG_HEADER_LEN == 16

\* FutureSalt(valid_until=0x7FFFFFFF) of the first salt and of a replaced one.
MAX_VALID_UNTIL == 2147483647

\* ..utils.MESSAGE_SIZE_OVERHEAD, as the specification's constant table gives it.
MESSAGE_SIZE_OVERHEAD == 12

(* Bounds of the model.  ..utils.CONTAINER_MAX_LENGTH, CONTAINER_MAX_SIZE   *)
(* and DEFAULT_COMPRESSION_THRESHOLD are imported by the code with no       *)
(* value in these sources; the model gives them small values.               *)

CONTAINER_MAX_LENGTH == 2

CONTAINER_MAX_SIZE == 104

DEFAULT_COMPRESSION_THRESHOLD == 16

MsgIdScale == 16

\* time.time() is half past a second in 0 .. MaxClockSecs.
MaxClockSecs == 1

\* The server's clock, in seconds, is 0 (behind) or MaxServerSecs (ahead).
MaxServerSecs == 2

\* Calls are followed while fewer than CONTAINER_MAX_LENGTH + StagedSlack
\* messages are staged.
StagedSlack == 1

\* deserialize is followed while fewer than MaxPendingAck ids await acknowledgement.
MaxPendingAck == 1

\* bad_msg_notification 32 and 33 are delivered while the counter is in
\* 0 .. MaxSequence.
MaxSequence == 2

\* Calls are followed while last_msg_id is below MaxMsgIdSecs seconds.
MaxMsgIdSecs == 3

\* A session is followed for MaxCalls calls of push, finalize and deserialize.
MaxCalls == 4

-----------------------------------------------------------------------------
(* Byte strings.                                                           *)

UPDATE_IDS ==
    {"updates", "updates_combined", "update_short", "update_short_chat_message",
     "update_short_message", "update_short_sent_message", "updates_too_long"}

\* compression_threshold=None
NoThreshold == 0 - 1

NoBody == [ctor |-> "none"]

\* A serialized TL value: its constructor, the fields the handlers parse, and
\* whether from_bytes (and, for gzip_packed, gzip_decompress) accepts it.
Body(ctor, id, code, salt, now, list, inner, valid) ==
    [ctor |-> ctor, id |-> id, code |-> code, salt |-> salt, now |-> now,
     list |-> list, inner |-> inner, valid |-> valid]

Plain(ctor) == Body(ctor, 0, 0, 0, 0, <<>>, NoBody, TRUE)

Malformed(ctor) == Body(ctor, 0, 0, 0, 0, <<>>, NoBody, FALSE)

\* rpc_result req_msg_id:long result:Object
RpcResultBody(req_msg_id, result) ==
    Body("rpc_result", req_msg_id, 0, 0, 0, <<>>, result, TRUE)

\* rpc_error error_code:int error_message:string
RpcErrorBody(error_code) == Body("rpc_error", 0, error_code, 0, 0, <<>>, NoBody, TRUE)

\* gzip_packed packed_data:bytes, packed_data being gzip_compress(inner)
GzipPackedBody(inner) == Body("gzip_packed", 0, 0, 0, 0, <<>>, inner, TRUE)

\* bad_msg_notification bad_msg_id:long bad_msg_seqno:int error_code:int
BadMsgNotificationBody(bad_msg_id, error_code) ==
    Body("bad_msg_notification", bad_msg_id, error_code, 0, 0, <<>>, NoBody, TRUE)

\* bad_server_salt bad_msg_id:long bad_msg_seqno:int error_code:int new_server_salt:long
BadServerSaltBody(bad_msg_id, error_code, new_server_salt) ==
    Body("bad_server_salt", bad_msg_id, error_code, new_server_salt, 0, <<>>,
         NoBody, TRUE)

\* msg_detailed_info / msg_new_detailed_info ... answer_msg_id:long
DetailedInfoBody(ctor, answer_msg_id) ==
    Body(ctor, answer_msg_id, 0, 0, 0, <<>>, NoBody, TRUE)

\* future_salts req_msg_id:long now:int salts:vector<future_salt>
FutureSaltsBody(req_msg_id, now, list) ==
    Body("future_salts", req_msg_id, 0, 0, now, list, NoBody, TRUE)

\* pong msg_id:long ping_id:long
PongBody(msg_id) == Body("pong", msg_id, 0, 0, 0, <<>>, NoBody, TRUE)

\* new_session_created first_msg_id:long unique_id:long server_salt:long
NewSessionCreatedBody(server_salt) ==
    Body("new_session_created", 0, 0, server_salt, 0, <<>>, NoBody, TRUE)

\* msg_container messages:vector<message>
MsgContainerBody(messages) ==
    Body("msg_container", 0, 0, 0, 0, messages, NoBody, TRUE)

FutureSalt(valid_since, valid_until, salt) ==
    [valid_since |-> valid_since, valid_until |-> valid_until, salt |-> salt]

\* Message(msg_id, seqno, bytes, body)
Message(msg_id, seqno, body) == [msg_id |-> msg_id, seqno |-> seqno, body |-> body]


-----------------------------------------------------------------------------
(* The session object as one record, so that the methods are operators     *)
(* from a session to the session they leave behind.  ret, raised and       *)
(* allocated are what a call hands back: its return value (<<>> for None),  *)
(* the exception it raised ("" for none) and the ids _get_new_msg_id        *)
(* returned during it, in order.                                            *)

Self ==
    [time_offset |-> time_offset, salts |-> salts,
     start_salt_time |-> start_salt_time, client_id |-> client_id,
     sequence |-> sequence, last_msg_id |-> last_msg_id,
     pending_ack |-> pending_ack,
     compression_threshold |-> compression_threshold,
     rpc_results |-> rpc_results, updates |-> updates,
     buffer_reserved |-> buffer_reserved, buffer |-> buffer,
     msg_count |-> msg_count,
     ret |-> <<>>, raised |-> "", allocated |-> <<>>]

\* An exception leaves the fields as they are when it is raised.
Raise(s, what) == [s EXCEPT !.raised = what]

\* int(time.time())
IntTime(now) == now \div MsgIdScale

\* The body of an outbound message: what it is (a caller's request, msgs_ack,
\* get_future_salts), its length, the ids a msgs_ack names, and whether it went
\* into the buffer gzip_packed.
OutBody(kind, len, ids, packed) ==
    [kind |-> kind, len |-> len, ids |-> ids, packed |-> packed]

\* A request handed to push: len(request), and the length of
\* bytes(GzipPacked(packed_data=gzip_compress(request))).
Request(kind, len, packed_len) == [kind |-> kind, len |-> len, packed_len |-> packed_len]

\* bytes(MsgsAck(msg_ids=ids)): constructor, vector constructor, count, 8 per id.
MsgsAckBody(ids) == OutBody("msgs_ack", 12 + 8 * Len(ids), ids, FALSE)

\* bytes(get_future_salts(num=NUM_FUTURE_SALTS)): constructor, num.
GetFutureSaltsBody == OutBody("get_future_salts", 8, <<NUM_FUTURE_SALTS>>, FALSE)

\* get_future_salts(num=NUM_FUTURE_SALTS) as line 249 hands it to push; gzip
\* makes its 8 bytes longer.
GetFutureSaltsRequest == Request("get_future_salts", 8, 40)

RECURSIVE MessagesLen(_)
MessagesLen(msgs) ==
    IF msgs = <<>> THEN 0
    ELSE MSG_HEADER_LEN + Head(msgs).body.len + MessagesLen(Tail(msgs))

\* len(self._buffer)
BufferLen(s) ==
    IF s.buffer_reserved
    THEN HEADER_LEN + CONTAINER_HEADER_LEN + MessagesLen(s.buffer)
    ELSE 0

\* _get_new_msg_id with "last > new" for "last >= new": a clock that stands
\* still gives the same id twice.
NewMsgIdValueStalled(last, now, offset) ==
    LET new_msg_id == now + offset * MsgIdScale
    IN  IF last > new_msg_id THEN last + 4 ELSE new_msg_id

\* _get_new_msg_id: the value it returns and stores in _last_msg_id.
NewMsgIdValue(last, now, offset) ==
    LET new_msg_id == now + offset * MsgIdScale
    IN  IF last >= new_msg_id THEN last + 4 ELSE new_msg_id

get_new_msg_id(s, now) ==
    LET new_msg_id == NewMsgIdValue(s.last_msg_id, now, s.time_offset)
    IN  [s EXCEPT !.last_msg_id = new_msg_id,
                  !.allocated = Append(@, new_msg_id),
                  !.ret = <<new_msg_id>>]

\* _get_seq_no: the counter it leaves.
SequenceAfter(seq, content_related) ==
    IF content_related THEN seq + 2 ELSE seq

\* _get_seq_no: the value it returns.
SeqNoValue(seq, content_related) ==
    IF content_related THEN SequenceAfter(seq, content_related) - 1 ELSE seq

\* _serialize_msg
serialize_msg(s, now, body, content_related) ==
    LET s1 == get_new_msg_id(s, now)
        msg_id == s1.ret[1]
        seq_no == SeqNoValue(s1.sequence, content_related)
    IN  [s1 EXCEPT !.sequence = SequenceAfter(@, content_related),
                   !.buffer = Append(@, [msg_id |-> msg_id, seq_no |-> seq_no,
                                         content_related |-> content_related,
                                         body |-> body]),
                   !.msg_count = @ + 1,
                   !.ret = <<msg_id>>]

\* push, lines 349-351: reserve space for finalize.
PushReserve(s) ==
    IF BufferLen(s) = 0 THEN [s EXCEPT !.buffer_reserved = TRUE] ELSE s

\* push without line 355: the ids stay pending and are acknowledged again.
PushAcksKeepingPending(s, now) ==
    IF s.pending_ack # <<>>
    THEN serialize_msg(s, now, MsgsAckBody(s.pending_ack), FALSE)
    ELSE s

\* push, lines 353-355: stage the pending acknowledgements.
PushAcks(s, now) ==
    IF s.pending_ack # <<>>
    THEN [serialize_msg(s, now, MsgsAckBody(s.pending_ack), FALSE)
            EXCEPT !.pending_ack = <<>>]
    ELSE s

\* push, lines 358-362: whether the last salt is popped.
SaltRotationDue(s, now) ==
    /\ s.start_salt_time # <<>>
    /\ Len(s.salts) >= 2
    /\ LET start_secs == s.start_salt_time[1]
           start_instant == s.start_salt_time[2]
           salt == s.salts[Len(s.salts) - 1]
           server_now == start_secs + (start_instant - IntTime(now))
       IN  server_now >= salt.valid_since + SALT_USE_DELAY

\* push without lines 364-367: the pop asks for no new salts.
PushRotateSilently(s, now) ==
    IF SaltRotationDue(s, now)
    THEN [s EXCEPT !.salts = SubSeq(@, 1, Len(@) - 1)]
    ELSE s

\* push, lines 357-367: salt rotation.
PushRotate(s, now) ==
    IF SaltRotationDue(s, now)
    THEN LET s1 == [s EXCEPT !.salts = SubSeq(@, 1, Len(@) - 1)]
         IN  IF Len(s1.salts) = 1
             THEN serialize_msg(s1, now, GetFutureSaltsBody, TRUE)
             ELSE s1
    ELSE s

\* push, line 369: the staged count leaves no room.
ContainerFull(count) == count = CONTAINER_MAX_LENGTH

\* push, lines 375-380: the body that is serialized for a request.
RequestBody(request, threshold) ==
    IF /\ threshold # NoThreshold
       /\ request.len >= threshold
       /\ request.packed_len < request.len
    THEN OutBody(request.kind, request.packed_len, <<>>, TRUE)
    ELSE OutBody(request.kind, request.len, <<>>, FALSE)

\* push, lines 382-384: the buffer would reach the size limit.
BufferFull(buffer_len, body_len) ==
    buffer_len + body_len + MESSAGE_SIZE_OVERHEAD >= CONTAINER_MAX_SIZE

\* push, lines 372-373: the request is one a container can hold.
RequestFits(request) ==
    /\ request.len + MESSAGE_SIZE_OVERHEAD <= CONTAINER_MAX_SIZE
    /\ request.len % 4 = 0

\* push
push(s, now, request) ==
    LET s1 == PushRotate(PushAcks(PushReserve(s), now), now)
        body == RequestBody(request, s1.compression_threshold)
    IN  IF ContainerFull(s1.msg_count) THEN [s1 EXCEPT !.ret = <<>>]
        ELSE IF ~RequestFits(request) THEN Raise(s1, "AssertionError")
        ELSE IF BufferFull(BufferLen(s1), body.len) THEN [s1 EXCEPT !.ret = <<>>]
        ELSE serialize_msg(s1, now, body, TRUE)

\* b"" and the frames _finalize_plain returns.
EmptyBytes ==
    [kind |-> "empty", salt |-> 0, client_id |-> 0, msg_id |-> 0, seq_no |-> 0,
     length |-> 0, count |-> 0, messages |-> <<>>, size |-> 0]

\* The container header counting one message too few.
ContainerCountShort(s) == s.msg_count - 1

\* The message count written in the container header, line 175.
ContainerCount(s) == s.msg_count

\* The container length taking in the container's own header.
ContainerLengthWithHeader(s) == BufferLen(s) - HEADER_LEN + 8

\* The length written in the container header, line 173: the bytes behind it.
ContainerLength(s) == BufferLen(s) - HEADER_LEN - CONTAINER_HEADER_LEN + 8

\* The salt written in the header, line 165.
HeaderSalt(s) == IF s.salts # <<>> THEN s.salts[Len(s.salts)].salt ELSE 0

\* The test of line 158 left out: a finalize with nothing staged goes on.
NothingStagedIgnored(s) == FALSE

\* _finalize_plain, line 158: "not self._msg_count".
NothingStaged(s) == s.msg_count = 0

\* _finalize_plain: ret is the plaintext it returns.
finalize_plain(s, now) ==
    IF NothingStaged(s) THEN [s EXCEPT !.ret = EmptyBytes]
    ELSE IF s.msg_count = 1
    THEN [s EXCEPT !.msg_count = 0, !.buffer = <<>>, !.buffer_reserved = FALSE,
                   !.ret = [kind |-> "single", salt |-> HeaderSalt(s),
                            client_id |-> s.client_id, msg_id |-> 0, seq_no |-> 0,
                            length |-> 0, count |-> 0, messages |-> s.buffer,
                            size |-> BufferLen(s) - CONTAINER_HEADER_LEN]]
    ELSE LET s1 == get_new_msg_id(s, now)
         IN  [s1 EXCEPT !.msg_count = 0, !.buffer = <<>>,
                        !.buffer_reserved = FALSE,
                        !.ret = [kind |-> "container", salt |-> HeaderSalt(s),
                                 client_id |-> s.client_id,
                                 msg_id |-> s1.ret[1],
                                 seq_no |-> SeqNoValue(s1.sequence, FALSE),
                                 length |-> ContainerLength(s),
                                 count |-> ContainerCount(s),
                                 messages |-> s.buffer,
                                 size |-> BufferLen(s)]]


-----------------------------------------------------------------------------
(* The inbound path.                                                       *)

\* The entries of self._rpc_results: (MsgId, bytes | RpcError | ValueError).
ResultEntry(msg_id, kind, value) == [msg_id |-> msg_id, kind |-> kind, value |-> value]

\* ..utils.message_requires_ack: the odd seq_no rule of the dispatch rules.
message_requires_ack(message) == message.seqno % 2 = 1

\* self._handlers, lines 102-121: the handler registered for a constructor id,
\* _handle_update for every other one (line 191).  msg_container has no entry.
HandlerFor(ctor) ==
    CASE ctor = "rpc_result" -> "_handle_rpc_result"
      [] ctor = "msgs_ack" -> "_handle_ack"
      [] ctor \in {"bad_msg_notification", "bad_server_salt"}
            -> "_handle_bad_notification"
      [] ctor = "msgs_state_req" -> "_handle_state_req"
      [] ctor = "msgs_state_info" -> "_handle_state_info"
      [] ctor = "msgs_all_info" -> "_handle_msg_all"
      [] ctor \in {"msg_detailed_info", "msg_new_detailed_info"}
            -> "_handle_detailed_info"
      [] ctor = "msg_resend_req" -> "_handle_msg_resend"
      [] ctor = "future_salt" -> "_handle_future_salt"
      [] ctor = "future_salts" -> "_handle_future_salts"
      [] ctor = "pong" -> "_handle_pong"
      [] ctor \in {"destroy_session_ok", "destroy_session_none"}
            -> "_handle_destroy_session"
      [] ctor = "new_session_created" -> "_handle_new_session_created"
      [] ctor = "gzip_packed" -> "_handle_gzip_packed"
      [] ctor = "http_wait" -> "_handle_http_wait"
      [] OTHER -> "_handle_update"

\* X.from_bytes(body) of a handler that parses and does nothing else.
ParseOnly(s, body) == IF body.valid THEN s ELSE Raise(s, "ValueError")

\* isinstance(message.body, RpcResult), line 194.  message.body is the byte
\* string Message.from_bytes cut out of the plaintext (lines 190, 229, 295 and
\* 336 read it as bytes), never an RpcResult object.
BodyIsRpcResult(body) == FALSE

\* struct.unpack_from("I", body)[0] in UPDATE_IDS, lines 223-224 (native byte
\* order, which is the "<I" of the other reads on a little-endian host).
HasUpdateConstructor(body) == body.ctor \in UPDATE_IDS

\* _store_own_updates
store_own_updates(s, body) ==
    IF HasUpdateConstructor(body) THEN [s EXCEPT !.updates = Append(@, body)] ELSE s

\* _handle_rpc_result
handle_rpc_result(s, message) ==
    IF ~BodyIsRpcResult(message.body) THEN Raise(s, "AssertionError")
    ELSE
    LET msg_id == message.body.id
        result == message.body.inner
        inner_constructor == result.ctor
    IN  CASE inner_constructor = "rpc_error" ->
               IF result.valid
               THEN [s EXCEPT !.rpc_results =
                        Append(@, ResultEntry(msg_id, "RpcError", result.code))]
               ELSE Raise(s, "ValueError")
          [] inner_constructor \in {"rpc_answer_unknown", "rpc_answer_dropped_running",
                                    "rpc_answer_dropped"} -> s
          [] inner_constructor = "gzip_packed" ->
               IF result.valid
               THEN [store_own_updates(s, result.inner) EXCEPT !.rpc_results =
                        Append(@, ResultEntry(msg_id, "bytes", result.inner))]
               ELSE Raise(s, "ValueError")
          [] OTHER ->
               [store_own_updates(s, result) EXCEPT !.rpc_results =
                        Append(@, ResultEntry(msg_id, "bytes", result))]

\* _correct_time_offset with the difference taken the other way round.
InvertedTimeOffset(msg_id, now) == IntTime(now) - (msg_id \div MsgIdScale)

\* _correct_time_offset: the offset it stores.
CorrectedTimeOffset(msg_id, now) == (msg_id \div MsgIdScale) - IntTime(now)

\* Error code 33 taking 15 from the counter: the counter turns odd.
SequenceAfterBadMsgOdd(seq, error_code) ==
    IF error_code = 32 THEN seq + 64
    ELSE IF error_code = 33 THEN seq - 15
    ELSE seq

\* Error code 32 lowering the counter where line 261 raises it.
SequenceAfterBadMsgLowered(seq, error_code) ==
    IF error_code = 32 THEN seq - 64
    ELSE IF error_code = 33 THEN seq - 16
    ELSE seq

\* _handle_bad_notification, lines 257-264: the counter after an error code.
SequenceAfterBadMsg(seq, error_code) ==
    IF error_code = 32 THEN seq + 64
    ELSE IF error_code = 33 THEN seq - 16
    ELSE seq

\* The new salt appended without self._salts.clear(): the old salts stay.
AppendedSalts(old, salt) == Append(old, FutureSalt(0, MAX_VALID_UNTIL, salt))

\* _handle_bad_notification, lines 242-247: the store after clear and append.
ReplacedSalts(old, salt) == <<FutureSalt(0, MAX_VALID_UNTIL, salt)>>

\* The clock corrected on every code that is not a seq_no one.
SignalsClockSkewLoosely(code) == code \notin {32, 33}

\* _handle_bad_notification, line 257: the codes for a msg_id too low or too
\* high, which tell that the clocks differ.
SignalsClockSkew(code) == code \in {16, 17}

\* _handle_bad_notification
handle_bad_notification(s, now, message) ==
    LET bad_msg == message.body
        entry == ResultEntry(bad_msg.id, "ValueError", bad_msg.code)
    IN  IF ~bad_msg.valid THEN Raise(s, "ValueError")
        ELSE IF bad_msg.ctor = "bad_server_salt"
        THEN LET s1 == [s EXCEPT
                          !.rpc_results = Append(@, entry),
                          !.salts = ReplacedSalts(@, bad_msg.salt)]
             IN  [push(s1, now, GetFutureSaltsRequest) EXCEPT !.ret = <<>>]
        ELSE LET s1 == [s EXCEPT !.rpc_results = Append(@, entry)]
             IN  IF SignalsClockSkew(bad_msg.code)
                 THEN [s1 EXCEPT !.time_offset =
                                    CorrectedTimeOffset(message.msg_id, now)]
                 ELSE [s1 EXCEPT !.sequence =
                                    SequenceAfterBadMsg(@, bad_msg.code)]

\* _handle_detailed_info
handle_detailed_info(s, message) ==
    IF ~message.body.valid THEN Raise(s, "ValueError")
    ELSE [s EXCEPT !.pending_ack = Append(@, message.body.id)]

\* salts.sort(key=lambda salt: -salt.valid_since): a stable sort, largest first.
RECURSIVE InsertSalt(_, _)
InsertSalt(sorted, salt) ==
    IF sorted = <<>> THEN <<salt>>
    ELSE IF Head(sorted).valid_since >= salt.valid_since
    THEN <<Head(sorted)>> \o InsertSalt(Tail(sorted), salt)
    ELSE <<salt>> \o sorted

RECURSIVE SortSalts(_)
SortSalts(list) ==
    IF list = <<>> THEN <<>>
    ELSE InsertSalt(SortSalts(SubSeq(list, 1, Len(list) - 1)), list[Len(list)])

\* _handle_future_salts
handle_future_salts(s, now, message) ==
    LET body == message.body
    IN  IF ~body.valid THEN Raise(s, "ValueError")
        ELSE [s EXCEPT !.rpc_results = Append(@, ResultEntry(body.id, "bytes", body)),
                       !.start_salt_time = <<body.now, IntTime(now)>>,
                       !.salts = SortSalts(body.list)]

\* _handle_future_salt: from_bytes, then assert False.
handle_future_salt(s, message) ==
    IF ~message.body.valid THEN Raise(s, "ValueError") ELSE Raise(s, "AssertionError")

\* _handle_pong
handle_pong(s, message) ==
    IF ~message.body.valid THEN Raise(s, "ValueError")
    ELSE [s EXCEPT !.rpc_results =
             Append(@, ResultEntry(message.body.id, "bytes", message.body))]

\* _handle_new_session_created
handle_new_session_created(s, message) ==
    IF ~message.body.valid THEN Raise(s, "ValueError")
    ELSE [s EXCEPT !.salts = <<FutureSalt(0, MAX_VALID_UNTIL, message.body.salt)>>]

\* _handle_update
handle_update(s, message) == [s EXCEPT !.updates = Append(@, message.body)]

RECURSIVE process_message(_, _, _)
RECURSIVE process_messages(_, _, _)

\* _handle_container (defined at lines 323-326; no constructor id maps to it)
handle_container(s, now, message) ==
    IF ~message.body.valid THEN Raise(s, "ValueError")
    ELSE process_messages(s, now, message.body.list)

\* _handle_gzip_packed
handle_gzip_packed(s, now, message) ==
    IF ~message.body.valid THEN Raise(s, "ValueError")
    ELSE process_message(s, now,
                         Message(message.msg_id, message.seqno, message.body.inner))

\* _process_message, lines 184-185: the acknowledgement owed for the message.
NoteAck(s, message) ==
    IF message_requires_ack(message)
    THEN [s EXCEPT !.pending_ack = Append(@, message.msg_id)]
    ELSE s

\* _process_message
process_message(s, now, message) ==
    LET s1 == NoteAck(s, message)
        handler == HandlerFor(message.body.ctor)
    IN  CASE handler = "_handle_rpc_result" -> handle_rpc_result(s1, message)
          [] handler = "_handle_bad_notification" ->
                handle_bad_notification(s1, now, message)
          [] handler = "_handle_detailed_info" -> handle_detailed_info(s1, message)
          [] handler = "_handle_future_salt" -> handle_future_salt(s1, message)
          [] handler = "_handle_future_salts" -> handle_future_salts(s1, now, message)
          [] handler = "_handle_pong" -> handle_pong(s1, message)
          [] handler = "_handle_new_session_created" ->
                handle_new_session_created(s1, message)
          [] handler = "_handle_container" -> handle_container(s1, now, message)
          [] handler = "_handle_gzip_packed" -> handle_gzip_packed(s1, now, message)
          [] handler = "_handle_update" -> handle_update(s1, message)
          [] OTHER -> ParseOnly(s1, message.body)

\* The loop of _handle_container: an exception ends it.
process_messages(s, now, messages) ==
    IF messages = <<>> THEN s
    ELSE LET s1 == process_message(s, now, Head(messages))
         IN  IF s1.raised # "" THEN s1
             ELSE process_messages(s1, now, Tail(messages))

\* Deserialization(rpc_results, updates)
Deserialization(results, upds) == [rpc_results |-> results, updates |-> upds]

\* deserialize without line 409: the updates stay queued.
DrainQueuesKeepingUpdates(s) ==
    [s EXCEPT !.ret = Deserialization(s.rpc_results, s.updates),
              !.rpc_results = <<>>]

\* deserialize, lines 406-409: hand the queues over and start new ones.
DrainQueues(s) ==
    [s EXCEPT !.ret = Deserialization(s.rpc_results, s.updates),
              !.rpc_results = <<>>, !.updates = <<>>]

\* deserialize without the check of lines 400-402.
SessionIdUnchecked(s, header_client_id) == TRUE

\* deserialize, lines 400-402: the session id of the header is this session's.
SessionIdMatches(s, header_client_id) == header_client_id = s.client_id

\* deserialize.  A payload is the plaintext decrypt_data_v2 returns: the
\* client_id of its header and its one message; intact is FALSE when
\* check_message_buffer or decrypt_data_v2 raises instead.
deserialize(s, now, payload) ==
    IF ~payload.intact THEN Raise(s, "ValueError")
    ELSE IF ~SessionIdMatches(s, payload.client_id)
    THEN Raise(s, "RuntimeError: wrong session id")
    ELSE LET s1 == process_message(s, now, payload.message)
         IN  IF s1.raised # "" THEN s1 ELSE DrainQueues(s1)


-----------------------------------------------------------------------------
(* Inputs.                                                                 *)

\* The session id os.urandom gives the session, and another session's.
OwnClientId == 11

OtherClientId == 22

\* first_salt of the constructor, and the salt the server names later.
FirstSalt == 7

NewSalt == 8

\* The values time.time() takes.
ClockValues ==
    {secs * MsgIdScale + (MsgIdScale \div 2) : secs \in 0 .. MaxClockSecs}

\* Server message ids: server time, low bits 1 (a reply to the client).
ServerMsgIds == {secs * MsgIdScale + 1 : secs \in {0, MaxServerSecs}}

\* The requests of the caller: a short one, and one long enough to be gzipped.
Requests ==
    {Request("request", 8, 40),
     Request("request", 20, 12)}

\* The longest request the assertions of push let through, one gzip does not
\* shorten.
LargestRequest ==
    Request("request", CONTAINER_MAX_SIZE - MESSAGE_SIZE_OVERHEAD,
            CONTAINER_MAX_SIZE - MESSAGE_SIZE_OVERHEAD)

\* The id the server names as request, bad message or answer.
QuotedMsgId == 4

Payload(header_client_id, message) ==
    [intact |-> TRUE, client_id |-> header_client_id, message |-> message]

\* A payload check_message_buffer or decrypt_data_v2 rejects.
GarbledPayload ==
    [intact |-> FALSE, client_id |-> OwnClientId,
     message |-> Message(1, 0, Plain("msgs_ack"))]

\* future_salts answers: the server's now and its salts, as the server
\* orders them or not; a second salt past its SALT_USE_DELAY, or one second
\* before it; none at all.
FutureSaltsBodies ==
    {FutureSaltsBody(QuotedMsgId, 100,
                     <<FutureSalt(0, 50, 1), FutureSalt(30, 80, 2)>>),
     FutureSaltsBody(QuotedMsgId, 100,
                     <<FutureSalt(30, 80, 2), FutureSalt(0, 50, 1),
                       FutureSalt(60, 110, 3)>>),
     FutureSaltsBody(QuotedMsgId, 89,
                     <<FutureSalt(0, 50, 1), FutureSalt(30, 80, 2)>>),
     FutureSaltsBody(QuotedMsgId, 100, <<>>)}

\* Payloads whose handlers change the session beyond the result queues.
StatefulPayloads ==
    {Payload(OwnClientId, Message(id, 2, BadMsgNotificationBody(QuotedMsgId, 16))) :
        id \in ServerMsgIds}
    \cup {Payload(OwnClientId, Message(1, 2, BadMsgNotificationBody(QuotedMsgId, code))) :
            code \in {17, 32, 33, 48}}
    \cup {Payload(OwnClientId, Message(1, seqno,
                                       BadServerSaltBody(QuotedMsgId, 48, NewSalt))) :
            seqno \in {1, 2}}
    \cup {Payload(OwnClientId, Message(1, 2, body)) : body \in FutureSaltsBodies}
    \cup {Payload(OwnClientId, Message(1, 2, body)) :
            body \in {NewSessionCreatedBody(NewSalt),
                      DetailedInfoBody("msg_detailed_info", QuotedMsgId),
                      DetailedInfoBody("msg_new_detailed_info", QuotedMsgId)}}
    \cup {Payload(OwnClientId, Message(1, 1, body)) :
            body \in {Plain("updates"),
                      GzipPackedBody(BadMsgNotificationBody(QuotedMsgId, 33))}}
    \cup {Payload(OtherClientId, Message(1, 1, Plain("updates"))), GarbledPayload}

\* Payloads whose handlers reach the result queues, only parse, or raise.
QueuePayloads ==
    {Payload(OwnClientId, Message(1, 2, body)) :
        body \in {Plain("user"), Plain("update_short"), Plain("msgs_ack"),
                  Malformed("msgs_ack"), Plain("future_salt"), PongBody(QuotedMsgId),
                  GzipPackedBody(Plain("updates")),
                  MsgContainerBody(<<Message(1, 1, PongBody(QuotedMsgId)),
                                     Message(5, 2, Plain("updates"))>>)}}
    \cup {Payload(OwnClientId, Message(1, 1, RpcResultBody(QuotedMsgId, result))) :
            result \in {Plain("updates"), Plain("user"), RpcErrorBody(400),
                        GzipPackedBody(Plain("updates")),
                        GzipPackedBody(RpcErrorBody(400))}}

Payloads == StatefulPayloads \cup QueuePayloads

\* Whether the payload carries a bad_msg_notification that moves the counter.
RECURSIVE MovesSequence(_)
MovesSequence(body) ==
    \/ body.ctor = "bad_msg_notification" /\ body.code \in {32, 33}
    \/ body.ctor = "gzip_packed" /\ body.valid /\ MovesSequence(body.inner)

-----------------------------------------------------------------------------
(* The state machine.                                                      *)

Called(op, arg, s) ==
    [op |-> op, arg |-> arg, ret |-> s.ret, raised |-> s.raised,
     allocated |-> s.allocated]

\* Encrypted.__init__
Init ==
    /\ time_offset = 0
    /\ salts = <<FutureSalt(0, MAX_VALID_UNTIL, FirstSalt)>>
    /\ start_salt_time = <<>>
    /\ client_id = OwnClientId
    /\ sequence = 0
    /\ last_msg_id = 0
    /\ pending_ack = <<>>
    /\ compression_threshold = DEFAULT_COMPRESSION_THRESHOLD
    /\ rpc_results = <<>>
    /\ updates = <<>>
    /\ buffer_reserved = FALSE
    /\ buffer = <<>>
    /\ msg_count = 0
    /\ returned = <<>>
    /\ last_call = Called("init", NoBody, Self)
    /\ calls = 0

\* The fields of the session become those of s.
Becomes(s) ==
    /\ time_offset' = s.time_offset
    /\ salts' = s.salts
    /\ start_salt_time' = s.start_salt_time
    /\ client_id' = s.client_id
    /\ sequence' = s.sequence
    /\ last_msg_id' = s.last_msg_id
    /\ pending_ack' = s.pending_ack
    /\ compression_threshold' = s.compression_threshold
    /\ rpc_results' = s.rpc_results
    /\ updates' = s.updates
    /\ buffer_reserved' = s.buffer_reserved
    /\ buffer' = s.buffer
    /\ msg_count' = s.msg_count
    /\ calls' = calls + 1

\* The model follows the session while its counters are within the bounds.
WithinBounds ==
    /\ calls < MaxCalls
    /\ msg_count < CONTAINER_MAX_LENGTH + StagedSlack
    /\ last_msg_id < MaxMsgIdSecs * MsgIdScale

PushFrom(requests) ==
    /\ WithinBounds
    /\ \E now \in ClockValues, request \in requests :
          LET s == push(Self, now, request)
          IN  /\ Becomes(s)
              /\ returned' = returned \o s.ret
              /\ last_call' = Called("push", request, s)

Finalize ==
    /\ calls < MaxCalls
    /\ \E now \in ClockValues :
          LET s == finalize_plain(Self, now)
          IN  /\ Becomes(s)
              /\ returned' = IF s.ret.kind = "empty" THEN returned ELSE <<>>
              /\ last_call' = Called("finalize", NoBody, s)

DeserializeFrom(payloads) ==
    /\ WithinBounds
    /\ Len(pending_ack) < MaxPendingAck
    /\ \E now \in ClockValues, payload \in payloads :
          LET s == deserialize(Self, now, payload)
          IN  /\ MovesSequence(payload.message.body) => sequence \in 0 .. MaxSequence
              /\ Becomes(s)
              /\ UNCHANGED returned
              /\ last_call' = Called("deserialize", payload, s)

Push == PushFrom(Requests)

Deserialize == DeserializeFrom(Payloads)

Next == Push \/ Finalize \/ Deserialize

Spec == Init /\ [][Next]_vars


-----------------------------------------------------------------------------
(* What the properties read off a state.                                   *)

\* Each id of ids is above the one before it, the first one above prev.
StrictlyAbove(prev, ids) ==
    \A i \in 1 .. Len(ids) : ids[i] > (IF i = 1 THEN prev ELSE ids[i - 1])

\* The last id of ids, prev when there is none.
LastOr(prev, ids) == IF ids = <<>> THEN prev ELSE ids[Len(ids)]

\* The msg_ids of staged messages, in order.
IdsOf(msgs) == [i \in 1 .. Len(msgs) |-> msgs[i].msg_id]

\* The staged message is a request the caller pushed.
IsCallerRequest(m) == m.body.kind = "request"

\* The staged message is one the session staged by itself.
IsInternal(m) == m.body.kind \in {"msgs_ack", "get_future_salts"}

\* The body a payload's message is dispatched as in the end: gzip unwrapped.
RECURSIVE Unwrapped(_)
Unwrapped(body) ==
    IF body.ctor = "gzip_packed" /\ body.valid THEN Unwrapped(body.inner) ELSE body

\* The last call was op and returned.
Returned(op) == last_call.op = op /\ last_call.raised = ""


-----------------------------------------------------------------------------
(* Message ids.                                                            *)

\* The ids a call allocated are each above the one before, the first above
\* the last id of the calls before, and the last is the session's last id.
AllocatesAbove(s) ==
    /\ StrictlyAbove(last_msg_id, s.allocated)
    /\ s.last_msg_id = LastOr(last_msg_id, s.allocated)

\* C1: the ids the session allocates, for pushed requests and for its own
\* msgs_ack, get_future_salts and container headers, are strictly increasing
\* whatever the clock reads and whatever time_offset has become: in every
\* state the staged ids increase up to the last allocated id, and every push,
\* finalize and deserialize made in it allocates only ids above that one; the
\* id push returns is the last one it allocated.
C1_MsgIdsStrictlyIncrease ==
    /\ StrictlyAbove(0, IdsOf(buffer))
    /\ LastOr(0, IdsOf(buffer)) <= last_msg_id
    /\ \A now \in ClockValues :
          /\ \A request \in Requests :
                LET s == push(Self, now, request)
                IN  /\ AllocatesAbove(s)
                    /\ s.ret # <<>> =>
                          /\ s.allocated # <<>>
                          /\ s.ret[1] = s.last_msg_id
                          /\ s.ret[1] > last_msg_id
          /\ AllocatesAbove(finalize_plain(Self, now))
          /\ \A payload \in Payloads : AllocatesAbove(deserialize(Self, now, payload))

\* A push under a time_offset turned negative that staged a message of the
\* session's own and then the request, whose id is the previous one plus 4.
C1_Witness ==
    /\ Returned("push")
    /\ time_offset < 0
    /\ Len(last_call.allocated) = 2
    /\ last_call.ret = <<last_call.allocated[1] + 4>>


-----------------------------------------------------------------------------
(* What finalize flushes.                                                  *)

\* C2 as stated: finalize flushes exactly the messages for which push returned
\* an id since the previous finalize, as a single message when there is one
\* and as a container with that count when there are more.
C2_FinalizeFlushesPushed ==
    \A now \in ClockValues :
        LET frame == finalize_plain(Self, now).ret
        IN  /\ IdsOf(frame.messages) = returned
            /\ Len(returned) = 1 => frame.kind = "single"
            /\ Len(returned) > 1 =>
                  frame.kind = "container" /\ frame.count = Len(returned)

\* C2: finalize flushes exactly the staged messages, in order: those for which
\* push returned an id since the last emitted frame, which are the staged
\* caller requests, and the msgs_ack and get_future_salts messages the session
\* staged by itself.  It emits nothing when nothing is staged, a single message
\* when one message is staged, and otherwise a container whose count is the
\* number of staged messages; it leaves nothing staged.
C2_FinalizeFlushesStaged ==
    /\ Len(buffer) = msg_count
    /\ IdsOf(SelectSeq(buffer, IsCallerRequest)) = returned
    /\ \A i \in 1 .. Len(buffer) : IsCallerRequest(buffer[i]) \/ IsInternal(buffer[i])
    /\ \A now \in ClockValues :
          LET s == finalize_plain(Self, now)
              frame == s.ret
          IN  /\ frame.messages = buffer
              /\ frame.kind = "empty" <=> msg_count = 0
              /\ frame.kind = "single" <=> msg_count = 1
              /\ frame.kind = "container" <=> msg_count > 1
              /\ frame.kind = "container" => frame.count = msg_count
              /\ s.buffer = <<>>
              /\ s.msg_count = 0

\* finalize has emitted a container of a msgs_ack of the session's own and one
\* pushed request.
C2_Witness ==
    /\ Returned("finalize")
    /\ last_call.ret.kind = "container"
    /\ last_call.ret.count = 2
    /\ \E i, j \in 1 .. Len(last_call.ret.messages) :
          /\ last_call.ret.messages[i].body.kind = "msgs_ack"
          /\ IsCallerRequest(last_call.ret.messages[j])


-----------------------------------------------------------------------------
(* Capacity.                                                               *)

\* C3 as stated: the number of staged messages never exceeds
\* CONTAINER_MAX_LENGTH.
C3_StagedCountBounded == msg_count <= CONTAINER_MAX_LENGTH

\* C4 as stated: no buffer finalize emits is longer than CONTAINER_MAX_SIZE.
C4_EmittedSizeBounded ==
    last_call.op = "finalize" => last_call.ret.size <= CONTAINER_MAX_SIZE


-----------------------------------------------------------------------------
(* Sequence numbers.                                                       *)

\* The seq_no of a staged message has the parity of its kind.
ParityRight(m) ==
    IF m.body.kind = "msgs_ack" THEN m.seq_no % 2 = 0 ELSE m.seq_no % 2 = 1

\* C5: every pushed request and every get_future_salts carries an odd seq_no,
\* every msgs_ack and every container header an even one, in the buffer and in
\* the frames finalize emits, also after error codes 32 and 33 have moved the
\* counter.
C5_SeqNoParity ==
    /\ \A i \in 1 .. Len(buffer) : ParityRight(buffer[i])
    /\ last_call.op = "finalize" =>
          /\ \A i \in 1 .. Len(last_call.ret.messages) :
                ParityRight(last_call.ret.messages[i])
          /\ last_call.ret.kind = "container" => last_call.ret.seq_no % 2 = 0

\* A request staged with a negative seq_no: error code 33 has lowered the
\* counter below zero before the push.
C5_Witness ==
    \E i \in 1 .. Len(buffer) :
        IsCallerRequest(buffer[i]) /\ buffer[i].seq_no < 0

\* C6 as stated: no call lowers the counter.
C6_SequenceNeverDecreases ==
    \A now \in ClockValues :
        /\ \A request \in Requests : push(Self, now, request).sequence >= sequence
        /\ finalize_plain(Self, now).sequence >= sequence
        /\ \A payload \in Payloads :
              deserialize(Self, now, payload).sequence >= sequence

\* The payload's message is dispatched as a bad_msg_notification with error
\* code 33.
DispatchesCode33(payload) ==
    /\ payload.intact
    /\ Unwrapped(payload.message.body).ctor = "bad_msg_notification"
    /\ Unwrapped(payload.message.body).code = 33

\* C6: no call lowers the counter, except a deserialize that dispatches a
\* bad_msg_notification with error code 33, which lowers it by 16.
C6_SequenceDropsOnlyOnCode33 ==
    \A now \in ClockValues :
        /\ \A request \in Requests : push(Self, now, request).sequence >= sequence
        /\ finalize_plain(Self, now).sequence >= sequence
        /\ \A payload \in Payloads :
              LET s == deserialize(Self, now, payload)
              IN  \/ s.sequence >= sequence
                  \/ /\ s.raised = ""
                     /\ DispatchesCode33(payload)
                     /\ s.sequence = sequence - 16

\* A deserialize of error code 33 after one pushed request: the counter went
\* from 2 to -14.
C6_Witness ==
    /\ Returned("deserialize")
    /\ DispatchesCode33(last_call.arg)
    /\ sequence = 2 - 16
    /\ buffer # <<>>


-----------------------------------------------------------------------------
(* What deserialize hands back.                                            *)

\* The session a call leaves, as the next call finds it.
Left(s) == [s EXCEPT !.ret = <<>>, !.raised = "", !.allocated = <<>>]

\* C7: a deserialize that returns hands back everything in the two queues,
\* what was there and what the dispatch of its message appended, and leaves
\* both queues empty; deserializing the same payload again hands back only
\* what the second dispatch appended.
C7_DeserializeDrainsQueues ==
    /\ Returned("deserialize") => rpc_results = <<>> /\ updates = <<>>
    /\ \A now \in ClockValues, payload \in Payloads :
          LET d == deserialize(Self, now, payload)
              dispatched == process_message(Self, now, payload.message)
              again == deserialize(Left(d), now, payload)
          IN  d.raised = "" =>
                /\ d.ret.rpc_results = dispatched.rpc_results
                /\ d.ret.updates = dispatched.updates
                /\ d.rpc_results = <<>>
                /\ d.updates = <<>>
                /\ again.raised = "" =>
                      /\ Len(again.ret.rpc_results)
                            = Len(d.ret.rpc_results) - Len(rpc_results)
                      /\ Len(again.ret.updates) = Len(d.ret.updates) - Len(updates)

\* A deserialize has handed back one update and left the queues empty.
C7_Witness ==
    /\ Returned("deserialize")
    /\ Len(last_call.ret.updates) = 1
    /\ updates = <<>>
    /\ rpc_results = <<>>

\* C8: client_id stays the id of the construction and is the id in the header
\* of every frame finalize emits; a deserialize of a payload whose header
\* carries another client_id raises "wrong session id" and leaves every field
\* of the session as it was, whatever message the payload holds.
C8_ClientIdFixed ==
    /\ client_id = OwnClientId
    /\ (last_call.op = "finalize" /\ last_call.ret.kind # "empty") =>
          last_call.ret.client_id = client_id
    /\ \A now \in ClockValues, payload \in Payloads :
          payload.intact =>
             LET d == deserialize(Self, now,
                                  [payload EXCEPT !.client_id = OtherClientId])
             IN  /\ d.raised = "RuntimeError: wrong session id"
                 /\ Left(d) = Self

\* A deserialize has rejected another session's payload while a message was
\* staged.
C8_Witness ==
    /\ last_call.op = "deserialize"
    /\ last_call.arg.intact
    /\ last_call.arg.client_id # client_id
    /\ last_call.raised = "RuntimeError: wrong session id"
    /\ buffer # <<>>

\* The result constructors _handle_rpc_result does not queue as bytes.
UnqueuedResults ==
    {"rpc_error", "rpc_answer_unknown", "rpc_answer_dropped_running",
     "rpc_answer_dropped", "gzip_packed"}

\* C9 as stated: a body with an update constructor is appended to updates; the
\* result of an rpc_result is appended to rpc_results under req_msg_id, and to
\* updates as well exactly when its constructor is an update constructor.
C9_UpdatesAndResultsClassified ==
    \A now \in ClockValues, payload \in Payloads :
        (payload.intact /\ payload.client_id = client_id) =>
           LET body == payload.message.body
               d == deserialize(Self, now, payload)
               entry == ResultEntry(body.id, "bytes", body.inner)
           IN  /\ body.ctor \in UPDATE_IDS =>
                     /\ d.raised = ""
                     /\ d.ret.updates = Append(updates, body)
               /\ (body.ctor = "rpc_result" /\ body.inner.ctor \in UPDATE_IDS) =>
                     /\ d.raised = ""
                     /\ d.ret.rpc_results = Append(rpc_results, entry)
                     /\ d.ret.updates = Append(updates, body.inner)
               /\ (/\ body.ctor = "rpc_result"
                   /\ body.inner.ctor \notin UPDATE_IDS \cup UnqueuedResults) =>
                     /\ d.raised = ""
                     /\ d.ret.rpc_results = Append(rpc_results, entry)
                     /\ d.ret.updates = updates

-----------------------------------------------------------------------------
(* The salt after bad_server_salt.                                         *)

\* The payload's message is dispatched as a bad_server_salt.
DispatchesBadServerSalt(payload) ==
    /\ payload.intact
    /\ payload.client_id = OwnClientId
    /\ Unwrapped(payload.message.body).ctor = "bad_server_salt"
    /\ Unwrapped(payload.message.body).valid

\* The frame finalize emits is empty or carries the salt.
FrameCarries(s, salt) == s.ret.kind # "empty" => s.ret.salt = salt

\* C11: a deserialize that dispatches a bad_server_salt with the new salt S'
\* returns an error entry under bad_msg_id, leaves S' as the only entry of the
\* salt store, and the next finalize that emits bytes, directly or after a
\* push, writes S' in the header, whatever salts were stored and whatever was
\* staged before.
C11_BadServerSaltInstallsSalt ==
    \A now \in ClockValues, payload \in Payloads :
        DispatchesBadServerSalt(payload) =>
           LET bad_msg == Unwrapped(payload.message.body)
               d == deserialize(Self, now, payload)
           IN  /\ d.raised = ""
               /\ \E i \in 1 .. Len(d.ret.rpc_results) :
                     d.ret.rpc_results[i]
                        = ResultEntry(bad_msg.id, "ValueError", bad_msg.code)
               /\ Len(d.salts) = 1
               /\ d.salts[1].salt = bad_msg.salt
               /\ \A later \in ClockValues :
                     /\ FrameCarries(finalize_plain(Left(d), later), bad_msg.salt)
                     /\ \A request \in Requests :
                           FrameCarries(
                              finalize_plain(Left(push(Left(d), later, request)),
                                             later),
                              bad_msg.salt)

\* finalize has emitted, with the new salt in the header, a container with the
\* get_future_salts a bad_server_salt staged behind a request staged before
\* it, after several salts had been stored.
C11_Witness ==
    /\ Returned("finalize")
    /\ last_call.ret.kind = "container"
    /\ last_call.ret.salt = NewSalt
    /\ salts = <<FutureSalt(0, MAX_VALID_UNTIL, NewSalt)>>
    /\ start_salt_time # <<>>
    /\ IsCallerRequest(last_call.ret.messages[1])
    /\ \E i \in 1 .. Len(last_call.ret.messages) :
          last_call.ret.messages[i].body.kind = "get_future_salts"


-----------------------------------------------------------------------------
(* Round trip.                                                             *)

\* The payload a loopback server sends for the request with the id req_msg_id:
\* an rpc_result with the request's body as result.
EchoPayload(req_msg_id) ==
    Payload(client_id, Message(1, 1, RpcResultBody(req_msg_id, Plain("user"))))

\* The rpc_results the caller collects from one deserialize per id of ids, in
\* order, starting in the session s; a call that raises hands back nothing.
RECURSIVE EchoedResults(_, _, _)
EchoedResults(s, now, ids) ==
    IF ids = <<>> THEN <<>>
    ELSE LET d == deserialize(s, now, EchoPayload(Head(ids)))
         IN  (IF d.raised = "" THEN d.ret.rpc_results ELSE <<>>)
                \o EchoedResults(Left(d), now, Tail(ids))

\* C12 as stated: when the requests pushed so far are echoed back as
\* rpc_result messages in push order, deserialize returns one rpc_results
\* entry per request, keyed by the ids push returned, in push order.
C12_EchoedInPushOrder ==
    \A now \in ClockValues :
        LET results == EchoedResults(Self, now, returned)
        IN  /\ Len(results) = Len(returned)
            /\ \A i \in 1 .. Len(results) :
                  /\ results[i].msg_id = returned[i]
                  /\ results[i].kind = "bytes"


-----------------------------------------------------------------------------
(* Time skew.                                                              *)

\* The payload's message is dispatched as a bad_msg_notification with error
\* code 16 or 17.
DispatchesTimeSkew(payload) ==
    /\ payload.intact
    /\ payload.client_id = client_id
    /\ Unwrapped(payload.message.body).ctor = "bad_msg_notification"
    /\ Unwrapped(payload.message.body).valid
    /\ Unwrapped(payload.message.body).code \in {16, 17}

\* The id allocated before the last one of the call that left s, the last id
\* of the session before when the call allocated a single one.
IdBeforeLast(before, s) ==
    IF Len(s.allocated) >= 2 THEN s.allocated[Len(s.allocated) - 1]
    ELSE before.last_msg_id

\* C13 as stated: after deserialize of a bad_msg_notification with error code
\* 16 or 17 in a message with the id M, time_offset is (M >> 32) - floor(now),
\* and the id a following push returns has floor(now) + time_offset as its
\* seconds, for every M.
C13_SkewCorrectedIds ==
    \A now \in ClockValues, payload \in Payloads :
        DispatchesTimeSkew(payload) =>
           LET d == deserialize(Self, now, payload)
           IN  /\ d.raised = ""
               /\ d.time_offset
                     = (payload.message.msg_id \div MsgIdScale) - IntTime(now)
               /\ \A later \in ClockValues, request \in Requests :
                     LET p == push(Left(d), later, request)
                     IN  p.ret # <<>> =>
                            p.ret[1] \div MsgIdScale = IntTime(later) + d.time_offset

\* C13: after deserialize of a bad_msg_notification with error code 16 or 17
\* in a message with the id M, time_offset is (M >> 32) - floor(now); the id a
\* following push returns has floor(now) + time_offset as its seconds when the
\* id of the corrected clock is above the last id allocated, and is that last
\* id plus 4 otherwise.
C13_SkewCorrectedIdsAboveLast ==
    \A now \in ClockValues, payload \in Payloads :
        DispatchesTimeSkew(payload) =>
           LET d == deserialize(Self, now, payload)
           IN  /\ d.raised = ""
               /\ d.time_offset
                     = (payload.message.msg_id \div MsgIdScale) - IntTime(now)
               /\ \A later \in ClockValues, request \in Requests :
                     LET p == push(Left(d), later, request)
                         before == IdBeforeLast(d, p)
                     IN  p.ret # <<>> =>
                            IF later + d.time_offset * MsgIdScale > before
                            THEN p.ret[1] \div MsgIdScale
                                    = IntTime(later) + d.time_offset
                            ELSE p.ret[1] = before + 4

\* A push after a correction towards a server clock that is ahead: the id it
\* returned has seconds no reading of the local clock has.
C13_Witness ==
    /\ Returned("push")
    /\ last_call.ret # <<>>
    /\ time_offset > 0
    /\ last_call.ret[1] \div MsgIdScale > MaxClockSecs
    /\ last_call.ret[1] % MsgIdScale = MsgIdScale \div 2


-----------------------------------------------------------------------------
(* The salt in use.                                                        *)

\* The server's time at the local time now: the server's now of the last
\* future_salts and the seconds gone by on the local clock since then.
ServerTime(now) == start_salt_time[1] + (IntTime(now) - start_salt_time[2])

\* C14 as stated: at every finalize that emits bytes after a future_salts was
\* installed, the salt in the header is that of the last entry of the store,
\* and that entry has the largest valid_since not above the server's time.
C14_ActiveSaltIsNewestUsable ==
    \A now \in ClockValues :
        LET s == finalize_plain(Self, now)
            active == salts[Len(salts)]
        IN  (s.ret.kind # "empty" /\ start_salt_time # <<>> /\ salts # <<>>) =>
               /\ s.ret.salt = active.salt
               /\ active.valid_since <= ServerTime(now)
               /\ \A i \in 1 .. Len(salts) :
                     salts[i].valid_since <= ServerTime(now) =>
                        salts[i].valid_since <= active.valid_since


-----------------------------------------------------------------------------
(* The request for new salts.                                              *)

\* The call that left s staged a get_future_salts(NUM_FUTURE_SALTS) message.
StagedGetFutureSalts(s) ==
    \E i \in 1 .. Len(s.buffer) :
        /\ s.buffer[i].body.kind = "get_future_salts"
        /\ \E j \in 1 .. Len(s.allocated) : s.allocated[j] = s.buffer[i].msg_id

\* C15 as stated: a deserialize that dispatches a bad_server_salt stages a
\* get_future_salts(NUM_FUTURE_SALTS) message, which the next finalize
\* carries, whatever is staged already.
C15_BadServerSaltRequestsSalts ==
    \A now \in ClockValues, payload \in Payloads :
        DispatchesBadServerSalt(payload) =>
           LET d == deserialize(Self, now, payload)
           IN  /\ d.raised = ""
               /\ StagedGetFutureSalts(d)
               /\ \A later \in ClockValues :
                     \E i \in 1 .. Len(finalize_plain(Left(d), later).ret.messages) :
                         finalize_plain(Left(d), later).ret.messages[i].body.kind
                            = "get_future_salts"


-----------------------------------------------------------------------------
(* Acknowledgements.                                                       *)

\* The messages the call that left s staged behind those of the buffer before.
StagedBy(before, s) == SubSeq(s.buffer, Len(before) + 1, Len(s.buffer))

\* The push that left s staged the ids pending as one msgs_ack, its first
\* message, not content-related and with an even seq_no, nothing else of what
\* it staged is a msgs_ack, what it staged later has a larger id, and a
\* finalize that follows carries the msgs_ack once.
AcksFlushed(before, pending, s, later) ==
    LET staged == StagedBy(before, s)
        frame == finalize_plain(Left(s), later).ret
    IN  /\ s.pending_ack = <<>>
        /\ staged # <<>>
        /\ staged[1].body = MsgsAckBody(pending)
        /\ ~staged[1].content_related
        /\ staged[1].seq_no % 2 = 0
        /\ staged[1].msg_id = s.allocated[1]
        /\ \A i \in 2 .. Len(staged) :
              /\ staged[i].body.kind # "msgs_ack"
              /\ staged[i].msg_id > staged[1].msg_id

        /\ Cardinality({i \in 1 .. Len(frame.messages) :
                           frame.messages[i] = staged[1]}) = 1

\* C16: a push made with ids pending stages all of them as one msgs_ack that
\* is not content-related, has an even seq_no and comes before the request
\* with a smaller id, and empties pending_ack, also when it then returns no
\* capacity, and the first finalize after it carries that msgs_ack once; the
\* push the bad_server_salt handler makes does the same with the ids pending
\* then; a push made with no id pending stages no msgs_ack.
C16_PendingAcksFlushedByPush ==
    \A now \in ClockValues, later \in ClockValues :
        /\ \A request \in Requests :
              LET p == push(Self, now, request)
              IN  IF pending_ack # <<>>
                  THEN /\ AcksFlushed(buffer, pending_ack, p, later)
                       /\ p.ret # <<>> =>
                             /\ Len(StagedBy(buffer, p)) >= 2
                             /\ p.ret[1] = p.buffer[Len(p.buffer)].msg_id
                  ELSE \A i \in 1 .. Len(StagedBy(buffer, p)) :
                          StagedBy(buffer, p)[i].body.kind # "msgs_ack"
        /\ \A payload \in Payloads :
              LET d == deserialize(Self, now, payload)
                  owed == NoteAck(Self, payload.message).pending_ack
              IN  (DispatchesBadServerSalt(payload) /\ owed # <<>>) =>
                     AcksFlushed(buffer, owed, d, later)

\* A push found ids pending, staged the msgs_ack behind what was staged before
\* and returned no capacity.
C16_Witness ==
    /\ Returned("push")
    /\ last_call.ret = <<>>
    /\ Len(last_call.allocated) = 1
    /\ pending_ack = <<>>
    /\ Len(buffer) >= 2
    /\ buffer[Len(buffer)].body.kind = "msgs_ack"
    /\ buffer[Len(buffer)].msg_id = last_call.allocated[1]


-----------------------------------------------------------------------------
(* Inbound containers.                                                     *)

\* Whether the payload reaches the dispatcher with a msg_container.
DispatchesContainer(payload) ==
    /\ payload.intact
    /\ payload.client_id = OwnClientId
    /\ payload.message.body.ctor = "msg_container"
    /\ payload.message.body.valid

\* Whether val is one of the elements of seq.
Among(val, seq) == \E i \in 1 .. Len(seq) : seq[i] = val

\* C17: deserializing a msg_container has the effect on rpc_results, updates,
\* pending_ack, salts, sequence and time_offset of dispatching its inner
\* messages one after another, and the container's body is not appended to
\* updates.
C17_ContainerDispatchesInner ==
    \A now \in ClockValues, payload \in Payloads :
        DispatchesContainer(payload) =>
            LET d == deserialize(Self, now, payload)
                each == process_messages(NoteAck(Self, payload.message), now,
                                         payload.message.body.list)
            IN  /\ d.raised = each.raised
                /\ d.raised = "" =>
                      /\ d.ret = Deserialization(each.rpc_results, each.updates)
                      /\ ~Among(payload.message.body, d.ret.updates)
                /\ d.pending_ack = each.pending_ack
                /\ d.salts = each.salts
                /\ d.sequence = each.sequence
                /\ d.time_offset = each.time_offset


-----------------------------------------------------------------------------
(* What moves time_offset.                                                 *)

\* C18: push, finalize, and deserialize of every payload that does not bring a
\* bad_msg_notification with code 16 or 17 to the dispatcher leave time_offset
\* as it was.
C18_OnlyClockSkewMovesTimeOffset ==
    \A now \in ClockValues :
        /\ \A request \in Requests :
              push(Self, now, request).time_offset = time_offset
        /\ finalize_plain(Self, now).time_offset = time_offset
        /\ \A payload \in Payloads :
              ~DispatchesTimeSkew(payload) =>
                  deserialize(Self, now, payload).time_offset = time_offset

\* A session whose time_offset a code 17 has moved received a
\* bad_msg_notification with another code, and the offset is still there.
C18_Witness ==
    /\ Returned("deserialize")
    /\ last_call.raised = ""
    /\ last_call.arg.message.body.ctor = "bad_msg_notification"
    /\ last_call.arg.message.body.code = 48
    /\ time_offset # 0


-----------------------------------------------------------------------------
(* The container header.                                                   *)

\* C19: a finalize with more than one message staged allocates one id, which
\* is the container's and is above the id of every message in it, writes an
\* even seq_no and leaves the counter where it was, and writes as length the
\* length of the messages plus 8; a finalize with one message staged allocates
\* no id and returns the message right behind the 16 bytes of the header.
C19_ContainerHeader ==
    \A now \in ClockValues :
        LET f == finalize_plain(Self, now)
        IN  /\ msg_count > 1 =>
                  /\ f.ret.kind = "container"
                  /\ f.allocated = <<f.ret.msg_id>>
                  /\ f.last_msg_id = f.ret.msg_id
                  /\ f.ret.messages = buffer
                  /\ \A i \in 1 .. Len(buffer) : buffer[i].msg_id < f.ret.msg_id
                  /\ f.ret.seq_no % 2 = 0
                  /\ f.sequence = sequence
                  /\ f.ret.length = MessagesLen(buffer) + 8
                  /\ f.ret.size = HEADER_LEN + CONTAINER_HEADER_LEN
                                     + MessagesLen(buffer)
            /\ msg_count = 1 =>
                  /\ f.ret.kind = "single"
                  /\ f.allocated = <<>>
                  /\ f.last_msg_id = last_msg_id
                  /\ f.sequence = sequence
                  /\ f.ret.messages = buffer
                  /\ Len(buffer) = 1
                  /\ f.ret.size = HEADER_LEN + MessagesLen(buffer)

\* A finalize returned a container of two requests under an id it allocated
\* itself, after the counter had advanced.
C19_Witness ==
    /\ Returned("finalize")
    /\ last_call.ret.kind = "container"
    /\ last_call.ret.count = 2
    /\ last_call.allocated = <<last_call.ret.msg_id>>
    /\ last_call.ret.seq_no = 4
    /\ sequence = 4
    /\ last_call.ret.length = MessagesLen(last_call.ret.messages) + 8
    /\ last_msg_id = last_call.ret.msg_id


-----------------------------------------------------------------------------
(* Salt rotation.                                                          *)

\* The server's time as push computes it at line 361.
ComputedServerTime(now) ==
    start_salt_time[1] + (start_salt_time[2] - IntTime(now))

\* The salts without the last one.
WithoutLast(list) == SubSeq(list, 1, Len(list) - 1)

\* C20: a push leaves the salts as they were or pops the last one; it pops
\* only with start_salt_time recorded, two salts or more stored and the
\* computed server time at or beyond valid_since + SALT_USE_DELAY of the
\* second-to-last one; a pop that leaves one salt comes with a
\* content-related get_future_salts(NUM_FUTURE_SALTS) staged by that push,
\* whatever the push returns.
C20_RotationPopsOneAndReplenishes ==
    \A now \in ClockValues, request \in Requests :
        LET p == push(Self, now, request)
            staged == StagedBy(buffer, p)
        IN  /\ p.salts # salts =>
                  /\ start_salt_time # <<>>
                  /\ Len(salts) >= 2
                  /\ p.salts = WithoutLast(salts)
                  /\ ComputedServerTime(now) >=
                        salts[Len(salts) - 1].valid_since + SALT_USE_DELAY
            /\ (p.salts # salts /\ Len(p.salts) = 1) =>
                  \E i \in 1 .. Len(staged) :
                      /\ staged[i].body = GetFutureSaltsBody
                      /\ staged[i].body.ids = <<NUM_FUTURE_SALTS>>
                      /\ staged[i].content_related
                      /\ staged[i].seq_no % 2 = 1
                      /\ Among(staged[i].msg_id, p.allocated)

\* A push popped the older of two salts the server had sent and staged a
\* get_future_salts before the request it accepted.
C20_Witness ==
    /\ Returned("push")
    /\ last_call.ret # <<>>
    /\ start_salt_time # <<>>
    /\ Len(salts) = 1
    /\ salts[1].valid_since > 0
    /\ Len(last_call.allocated) = 2
    /\ \E i \in 1 .. Len(buffer) :
          /\ buffer[i].body = GetFutureSaltsBody
          /\ buffer[i].content_related
          /\ buffer[i].msg_id = last_call.allocated[1]


-----------------------------------------------------------------------------
(* Finalize with nothing staged.                                           *)

\* C21: a finalize with no message staged returns empty bytes and leaves every
\* field of the session as it was, allocating no id; a finalize with messages
\* staged returns bytes and leaves the count at 0 and the buffer empty, and a
\* finalize right after it returns empty bytes.
C21_FinalizeOfNothing ==
    \A now \in ClockValues, later \in ClockValues :
        LET f == finalize_plain(Self, now)
            again == finalize_plain(Left(f), later)
        IN  /\ msg_count = 0 =>
                  /\ f.ret = EmptyBytes
                  /\ f.allocated = <<>>
                  /\ Left(f) = Self
            /\ msg_count # 0 =>
                  /\ f.ret.kind # "empty"
                  /\ f.ret.messages # <<>>
                  /\ f.msg_count = 0
                  /\ f.buffer = <<>>
                  /\ BufferLen(f) = 0
                  /\ again.ret = EmptyBytes
                  /\ Left(again) = Left(f)

\* A finalize found nothing staged, in a session that had allocated ids and
\* owes an acknowledgement, right after a finalize that had returned bytes.
C21_Witness ==
    /\ Returned("finalize")
    /\ last_call.ret = EmptyBytes
    /\ msg_count = 0
    /\ buffer = <<>>
    /\ last_msg_id > 0
    /\ sequence > 0
    /\ pending_ack # <<>>


-----------------------------------------------------------------------------
(* The retry of a refused push.                                            *)

\* The push of request that comes after a refused push and one finalize.
Retried(p, request, then, later) ==
    push(Left(finalize_plain(Left(p), then)), later, request)

\* C22 as stated: for every request the assertions of push let through, when
\* push returns no capacity, the push of the same request after one finalize
\* returns an id.
C22_RetryAfterFinalizeSucceeds ==
    \A now \in ClockValues, then \in ClockValues, later \in ClockValues :
        \A request \in Requests \cup {LargestRequest} :
            LET p == push(Self, now, request)
            IN  (RequestFits(request) /\ p.raised = "" /\ p.ret = <<>>) =>
                    /\ Retried(p, request, then, later).raised = ""
                    /\ Retried(p, request, then, later).ret # <<>>


-----------------------------------------------------------------------------
(* Acknowledgements owed.                                                  *)

\* How many times val is among the elements of seq.
Occurrences(val, seq) == Cardinality({i \in 1 .. Len(seq) : seq[i] = val})

\* How many times val is acknowledged by the msgs_ack messages among msgs.
RECURSIVE Acknowledged(_, _)
Acknowledged(val, msgs) ==
    IF msgs = <<>> THEN 0
    ELSE (IF Head(msgs).body.kind = "msgs_ack"
          THEN Occurrences(val, Head(msgs).body.ids) ELSE 0)
         + Acknowledged(val, Tail(msgs))

\* How many times the deserialize that left d put val in pending_ack: what is
\* pending or was staged as msgs_ack by it, less what was pending before.
TimesNoted(val, d) ==
    Occurrences(val, d.pending_ack) + Acknowledged(val, StagedBy(buffer, d))
        - Occurrences(val, pending_ack)

\* C23 as stated: a deserialize that dispatches a message puts its msg_id in
\* pending_ack once when its seq_no is odd, also when its body is a
\* gzip_packed envelope, and not at all when its seq_no is even.
C23_AckNotedOnce ==
    \A now \in ClockValues, payload \in Payloads :
        (payload.intact /\ payload.client_id = client_id) =>
            TimesNoted(payload.message.msg_id,
                       deserialize(Self, now, payload))
                = IF message_requires_ack(payload.message) THEN 1 ELSE 0


=============================================================================
